---- MODULE Spec2Model ----
(***************************************************************************)
(* GitHub -> Jira issue synchronisation (jira.py, project.py).             *)
(*                                                                         *)
(* The state is the remote Jira project (its tickets and the id counter    *)
(* of the tracker) and, per request worker, the position of                *)
(* JiraIssue.request_handler between two outbound calls together with its  *)
(* local variables.  Every outbound call is one step, so that deliveries   *)
(* handled by different workers interleave at exactly the places where     *)
(* the code waits for the network.                                         *)
(***************************************************************************)
EXTENDS Integers, Sequences, FiniteSets, TLC

VARIABLES
    tickets,        \* the remote project: set of [id, description]
    nextId,         \* the id the tracker hands to the next created ticket
    pc,             \* per worker: where request_handler stands
    issue_info,     \* per worker: the webhook payload being handled
    jira_issue_id,  \* per worker: result of github_issue_exists (0 is "0")
    payload,        \* per worker: dst_issue_info built by JiraIssue.open
    response,       \* per worker: what the caller of issue_route got
    calls,          \* per worker: outbound calls issued by this invocation
    replay          \* per worker: this delivery repeats the one just created

vars == <<tickets, nextId, pc, issue_info, jira_issue_id, payload, response,
          calls, replay>>

(***************************************************************************)
(* Bounds and input domains                                                *)
(***************************************************************************)
\* the tracker accepts this many creations in one run
MaxTickets == 2

Handlers == {"h1", "h2"}

IssueIds == {"42", "43"}

Missing == "MISSING"

(***************************************************************************)
(* Program constants                                                       *)
(***************************************************************************)
GITHUB_SYNC_LABEL == "sync-to-jira"

\* a handler that also treats opened and unlabeled as sync actions
sync_actions_wide == {"labeled", "deleted", "opened", "unlabeled"}

sync_actions == {"labeled", "deleted"}

ProjectKey == "CD"

DefaultIssueType == "Bug"

PlaceHolder == "Place Holder"

\* the issue types the project offers and the per-type lead of the project
ProjectIssueTypes == {"Bug", "Task"}

LeadAccountId == "lead"

(***************************************************************************)
(* Webhook payloads                                                        *)
(***************************************************************************)
\* a line of text: k is the keyword the line carries, v what follows it
Line(k, v) == [k |-> k, v |-> v]

IdLine(id) == Line("githubIssueId", id)

TypeLine(name) == Line("githubIssueType", name)

\* issue.body: None, or text given as its lines
NoBody == [present |-> FALSE, lines |-> <<>>]

Body(lines) == [present |-> TRUE, lines |-> lines]

Bodies ==
    {NoBody, Body(<<TypeLine("Task")>>), Body(<<TypeLine("Epic")>>)}
        \cup {Body(<<IdLine(i)>>) : i \in IssueIds}

Event(action, label, issue, body) ==
    [json |-> TRUE, action |-> action, label |-> label, issue |-> issue,
     title |-> "title", body |-> body]

\* request.get_json() gave None
NoJson ==
    [json |-> FALSE, action |-> Missing, label |-> Missing, issue |-> Missing,
     title |-> Missing, body |-> NoBody]

Events ==
    {Event("labeled", GITHUB_SYNC_LABEL, i, b) : i \in IssueIds, b \in Bodies}
        \cup {Event("labeled", l, i, NoBody) :
                l \in {"bug", Missing}, i \in IssueIds \cup {Missing}}
        \cup {Event("labeled", GITHUB_SYNC_LABEL, Missing, NoBody)}
        \cup {Event(a, Missing, i, NoBody) :
                a \in {"deleted", "opened"}, i \in IssueIds \cup {Missing}}
        \cup {Event("unlabeled", GITHUB_SYNC_LABEL, i, NoBody) : i \in IssueIds}
        \cup {Event(Missing, Missing, i, NoBody) : i \in IssueIds}
        \cup {NoJson}

\* the well-formed deliveries two workers are given at the same time
RaceEvents ==
    {Event("labeled", l, i, NoBody) :
        l \in {GITHUB_SYNC_LABEL, "bug"}, i \in IssueIds}
        \cup {Event(a, Missing, i, NoBody) :
                a \in {"deleted", "opened"}, i \in IssueIds}
        \cup {Event("unlabeled", GITHUB_SYNC_LABEL, i, NoBody) : i \in IssueIds}

(***************************************************************************)
(* Outbound calls                                                          *)
(***************************************************************************)
\* what a call to the tracker can come back with
Results == {"ok", "http_error", "bad_body"}

\* the status of a call that did not succeed
FailStatus(r) == IF r = "http_error" THEN 400 ELSE 502

Call(op, res, n) == [op |-> op, res |-> res, n |-> n]

(***************************************************************************)
(* Responses                                                               *)
(***************************************************************************)
NoResponse ==
    [kind |-> "none", status |-> 0, action_performed |-> "", id |-> 0,
     key |-> 0, github_issue_id |-> "", github_issue_action |-> "",
     error |-> ""]

\* the handler did not return: an exception or SystemExit left it
Aborted(kind, why) == [NoResponse EXCEPT !.kind = kind, !.error = why]

DefaultResponse ==
    [NoResponse EXCEPT !.kind = "returned", !.status = 200,
                       !.action_performed = "No action"]

\* issue_route: the payload was no JSON
NoJsonResponse ==
    [NoResponse EXCEPT !.kind = "returned", !.status = 200,
                       !.error = "No JSON data provided."]

\* the local variable response while request_handler is still running
PendingResponse == [DefaultResponse EXCEPT !.kind = "pending"]

\* request_handler, last block: the issue id and the action are added
Finalize(ev, resp) ==
    IF ev.issue = Missing
    THEN Aborted("raised", "KeyError")
    ELSE [resp EXCEPT !.kind = "returned", !.github_issue_id = ev.issue,
                      !.github_issue_action = ev.action]

\* the message issue_route prints for a response that was returned
response_handler(resp) ==
    IF resp.status = 201 /\ resp.action_performed = "open" THEN "open"
    ELSE IF resp.status = 204 /\ resp.action_performed = "delete" THEN "delete"
    ELSE IF resp.status = 200 /\ resp.action_performed = "No action"
    THEN "No action"
    ELSE "failed"

\* a string of the body as its words (split at the blanks)
Words(s) ==
    IF s = "No action" THEN <<"No", "action">>
    ELSE IF s = "No JSON data provided."
    THEN <<"No", "JSON", "data", "provided.">>
    ELSE <<s>>

\* response.text as issue_route hands it on: the keys and the values of the
\* JSON object in the order json.dumps writes them, each as its words
response_text(resp) ==
    IF resp.error # ""
    THEN <<<<"error">>, Words(resp.error)>>
    ELSE (IF resp.action_performed = "open" /\ resp.id # 0
          THEN <<<<"id">>, <<ToString(resp.id)>>,
                 <<"key">>, <<ToString(resp.key)>>>>
          ELSE <<>>)
         \o <<<<"action_performed">>, Words(resp.action_performed)>>
         \o (IF resp.action_performed = "delete"
             THEN <<<<"id">>, <<ToString(resp.id)>>>>
             ELSE <<>>)
         \o <<<<"github_issue_id">>, Words(resp.github_issue_id),
               <<"github_issue_action">>, Words(resp.github_issue_action)>>

(***************************************************************************)
(* The idempotency lookup                                                  *)
(***************************************************************************)
\* the tickets of the project whose description holds the searched line
jql_issue_search(tk, project_key, line) ==
    {t \in tk : \E i \in DOMAIN t.description : t.description[i] = line}

\* a lookup that reports "0" whatever the search returned
github_issue_exists_blind(tk, project_key, github_issue_id) == 0

\* the id of the one ticket found, 0 (the code's "0") otherwise
github_issue_exists(tk, project_key, github_issue_id) ==
    LET found == jql_issue_search(tk, project_key, IdLine(github_issue_id))
    IN  IF Cardinality(found) = 1 THEN (CHOOSE t \in found : TRUE).id ELSE 0

(***************************************************************************)
(* JiraIssue.open: issue type and payload                                  *)
(***************************************************************************)
\* an issue type that is the default whatever the body says
issue_type_name_default(body) == DefaultIssueType

\* pattern.search(self.body): the first line carrying githubIssueType
issue_type_name(body) ==
    LET hits == {i \in DOMAIN body.lines : body.lines[i].k = "githubIssueType"}
    IN  IF body.present /\ hits # {}
        THEN body.lines[CHOOSE i \in hits : \A j \in hits : i <= j].v
        ELSE DefaultIssueType

\* next(...) over the project's issue types: exact match of the name
issue_type_resolves(name) == name \in ProjectIssueTypes

issue_type_id(name) == name

\* a description that leaves out the line naming the GitHub issue
description_unmarked(ev) ==
    <<Line("githubIssueURL", "url"),
      Line("githubCreatedAt", "created_at"),
      Line("githubUpdatedAt", "updated_at")>>
        \o (IF ev.body.present THEN ev.body.lines ELSE <<>>)

\* the text of the description field
description(ev) ==
    <<IdLine(ev.issue), Line("githubIssueURL", "url"),
      Line("githubCreatedAt", "created_at"),
      Line("githubUpdatedAt", "updated_at")>>
        \o (IF ev.body.present THEN ev.body.lines ELSE <<>>)

\* the required fields a schema of the project can name
Schemas ==
    {{"project", "issuetype", "summary", "reporter"},
     {"summary", "description", "customfield_10020"}}

required_field_value(ev, fieldId) ==
    IF fieldId = "project" THEN [key |-> ProjectKey]
    ELSE IF fieldId = "issuetype"
    THEN [id |-> issue_type_id(issue_type_name(ev.body))]
    ELSE IF fieldId = "summary" THEN [text |-> ev.title]
    ELSE IF fieldId = "reporter" THEN [id |-> LeadAccountId]
    ELSE [text |-> PlaceHolder]

\* a payload that leaves out the required fields the code does not know
dst_issue_info_known(ev, required_fields) ==
    [f \in (required_fields
              \cap {"project", "issuetype", "summary", "reporter"})
             \cup {"description"} |->
        IF f = "description"
        THEN [text |-> description(ev)]
        ELSE required_field_value(ev, f)]

\* dst_issue_info["fields"]: the required fields, then the description
dst_issue_info(ev, required_fields) ==
    [f \in required_fields \cup {"description"} |->
        IF f = "description"
        THEN [text |-> description(ev)]
        ELSE required_field_value(ev, f)]

NoPayload == <<>>

(***************************************************************************)
(* request_handler                                                         *)
(***************************************************************************)
\* a dispatch whose else branch tests the lookup the wrong way round
Dispatch_inverted(ev, found) ==
    IF ev.action = "labeled" /\ ev.label = Missing THEN "raise"
    ELSE IF ev.action = "labeled" /\ ev.label = GITHUB_SYNC_LABEL
    THEN (IF found = 0 THEN "open" ELSE "none")
    ELSE (IF found = 0 THEN "delete" ELSE "none")

\* what request_handler does once the lookup has answered
Dispatch(ev, found) ==
    IF ev.action = "labeled" /\ ev.label = Missing THEN "raise"
    ELSE IF ev.action = "labeled" /\ ev.label = GITHUB_SYNC_LABEL
    THEN (IF found = 0 THEN "open" ELSE "none")
    ELSE (IF found # 0 THEN "delete" ELSE "none")

\* observation: no call of the invocation of worker h has failed so far
AllCallsOk(h) == \A i \in DOMAIN calls[h] : calls[h][i].res = "ok"

\* the delivery repeats, on the same worker, the one that just created a
\* ticket after a lookup that found none
Replays(h, ev) ==
    /\ pc[h] = "done"
    /\ issue_info[h] = ev
    /\ response[h].kind = "returned"
    /\ response[h].status = 201
    /\ Len(calls[h]) >= 2
    /\ calls[h][2].op = "search"
    /\ calls[h][2].n = 0
    /\ AllCallsOk(h)

\* a handler that issues the delete call again when it was refused
Finish_retry(h, resp) ==
    /\ pc' = [pc EXCEPT ![h] = IF pc[h] = "delete" /\ resp.status = 400
                               THEN "delete" ELSE "done"]
    /\ response' = [response EXCEPT ![h] = resp]

Finish(h, resp) ==
    /\ pc' = [pc EXCEPT ![h] = "done"]
    /\ response' = [response EXCEPT ![h] = resp]

Goto(h, where) ==
    /\ pc' = [pc EXCEPT ![h] = where]
    /\ UNCHANGED response

Issue(h, c) == calls' = [calls EXCEPT ![h] = Append(@, c)]

\* a handler whose default response is one object kept between requests
Receive_stale(h, ev) ==
    /\ pc[h] \in {"idle", "done"}
    /\ issue_info' = [issue_info EXCEPT ![h] = ev]
    /\ calls' = [calls EXCEPT ![h] = <<>>]
    /\ jira_issue_id' = [jira_issue_id EXCEPT ![h] = 0]
    /\ payload' = [payload EXCEPT ![h] = NoPayload]
    /\ replay' = [replay EXCEPT ![h] = Replays(h, ev)]
    /\ IF ~ev.json THEN Finish(h, NoJsonResponse)
       ELSE IF ev.action = Missing THEN Finish(h, Aborted("raised", "KeyError"))
       ELSE IF ev.action \notin sync_actions
       THEN Finish(h, Finalize(ev, DefaultResponse))
       ELSE /\ pc' = [pc EXCEPT ![h] = "get_project"]
            /\ response' = [response EXCEPT
                   ![h] = [PendingResponse EXCEPT !.id = response[h].id,
                                                  !.key = response[h].key]]
    /\ UNCHANGED <<tickets, nextId>>

\* issue_route up to the first outbound call of request_handler
Receive(h, ev) ==
    /\ pc[h] \in {"idle", "done"}
    /\ issue_info' = [issue_info EXCEPT ![h] = ev]
    /\ calls' = [calls EXCEPT ![h] = <<>>]
    /\ jira_issue_id' = [jira_issue_id EXCEPT ![h] = 0]
    /\ payload' = [payload EXCEPT ![h] = NoPayload]
    /\ replay' = [replay EXCEPT ![h] = Replays(h, ev)]
    /\ IF ~ev.json THEN Finish(h, NoJsonResponse)
       ELSE IF ev.action = Missing THEN Finish(h, Aborted("raised", "KeyError"))
       ELSE IF ev.action \notin sync_actions
       THEN Finish(h, Finalize(ev, DefaultResponse))
       ELSE /\ pc' = [pc EXCEPT ![h] = "get_project"]
            /\ response' = [response EXCEPT ![h] = PendingResponse]
    /\ UNCHANGED <<tickets, nextId>>

\* JiraProject("jira", "CD", jira_api), then the argument of the lookup
GetProject(h, r) ==
    /\ pc[h] = "get_project"
    /\ Issue(h, Call("get_project", r, 0))
    /\ IF r # "ok"
       THEN Finish(h, Aborted("raised",
                IF r = "bad_body" THEN "JSONDecodeError" ELSE "KeyError"))
       ELSE IF issue_info[h].issue = Missing
       THEN Finish(h, Aborted("raised", "KeyError"))
       ELSE Goto(h, "search")
    /\ UNCHANGED <<tickets, nextId, issue_info, jira_issue_id, payload, replay>>

\* github_issue_exists and the dispatch on its result
Search(h, r) ==
    /\ pc[h] = "search"
    /\ LET ev == issue_info[h]
           total == Cardinality(
                      jql_issue_search(tickets, ProjectKey, IdLine(ev.issue)))
           found == github_issue_exists(tickets, ProjectKey, ev.issue)
           todo == Dispatch(ev, found)
       IN  /\ Issue(h, Call("search", r, IF r = "ok" THEN total ELSE 0))
           /\ IF r # "ok"
              THEN /\ Finish(h, Aborted("raised",
                        IF r = "bad_body" THEN "JSONDecodeError"
                        ELSE "KeyError"))
                   /\ UNCHANGED jira_issue_id
              ELSE /\ jira_issue_id' = [jira_issue_id EXCEPT ![h] = found]
                   /\ IF todo = "raise"
                      THEN Finish(h, Aborted("raised", "KeyError"))
                      ELSE IF todo = "open" THEN Goto(h, "get_issuetypes")
                      ELSE IF todo = "delete" THEN Goto(h, "delete")
                      ELSE Finish(h, Finalize(ev, response[h]))
    /\ UNCHANGED <<tickets, nextId, issue_info, payload, replay>>

\* JiraIssue.open: the issue types of the project and the type of the issue
GetIssueTypes(h, r) ==
    /\ pc[h] = "get_issuetypes"
    /\ Issue(h, Call("get_issuetypes", r, 0))
    /\ IF r # "ok"
       THEN Finish(h, Aborted("raised",
                IF r = "bad_body" THEN "JSONDecodeError" ELSE "KeyError"))
       ELSE IF ~issue_type_resolves(issue_type_name(issue_info[h].body))
       THEN Finish(h, Aborted("exit", "SystemExit"))
       ELSE Goto(h, "get_schema")
    /\ UNCHANGED <<tickets, nextId, issue_info, jira_issue_id, payload, replay>>

\* JiraIssue.open: the schema of the issue type and the payload
GetSchema(h, r, required_fields) ==
    /\ pc[h] = "get_schema"
    /\ Issue(h, Call("get_schema", r, 0))
    /\ IF r # "ok"
       THEN /\ Finish(h, Aborted("raised",
                 IF r = "bad_body" THEN "JSONDecodeError" ELSE "KeyError"))
            /\ UNCHANGED payload
       ELSE /\ Goto(h, "create")
            /\ payload' = [payload EXCEPT
                   ![h] = dst_issue_info(issue_info[h], required_fields)]
    /\ UNCHANGED <<tickets, nextId, issue_info, jira_issue_id, replay>>

\* an answer to the create call passed on without action_performed "open"
open_response_unmarked(ev, r, id) ==
    IF r = "bad_body" THEN Aborted("raised", "JSONDecodeError")
    ELSE Finalize(ev,
            [PendingResponse EXCEPT
                !.status = IF r = "ok" THEN 201 ELSE FailStatus(r),
                !.id = IF r = "ok" THEN id ELSE 0,
                !.key = IF r = "ok" THEN id ELSE 0])

\* the response request_handler makes of the answer to the create call
open_response(ev, r, id) ==
    IF r = "bad_body" THEN Aborted("raised", "JSONDecodeError")
    ELSE Finalize(ev,
            [PendingResponse EXCEPT
                !.status = IF r = "ok" THEN 201 ELSE FailStatus(r),
                !.action_performed = "open",
                !.id = IF r = "ok" THEN id ELSE 0,
                !.key = IF r = "ok" THEN id ELSE 0])

\* JiraIssue.open: the create call, and the rest of request_handler
Create(h, r) ==
    /\ pc[h] = "create"
    /\ r = "ok" => nextId <= MaxTickets
    /\ Issue(h, Call("create", r, IF r = "ok" THEN nextId ELSE 0))
    /\ IF r = "ok"
       THEN /\ tickets' = tickets \cup
                   {[id |-> nextId,
                     description |-> payload[h]["description"].text]}
            /\ nextId' = nextId + 1
       ELSE UNCHANGED <<tickets, nextId>>
    /\ Finish(h, open_response(issue_info[h], r, nextId))
    /\ payload' = [payload EXCEPT ![h] = NoPayload]
    /\ UNCHANGED <<issue_info, jira_issue_id, replay>>

\* a handler that answers 204 whatever the delete call came back with
delete_response_always(ev, r, id) ==
    Finalize(ev,
        [PendingResponse EXCEPT
            !.status = 204,
            !.action_performed = "delete",
            !.id = id])

\* the response request_handler makes of the answer to the delete call
delete_response(ev, r, id) ==
    Finalize(ev,
        [PendingResponse EXCEPT
            !.status = IF r = "ok" THEN 204 ELSE FailStatus(r),
            !.action_performed = "delete",
            !.id = id])

\* JiraIssue.delete, and the rest of request_handler
Delete(h, r) ==
    /\ pc[h] = "delete"
    /\ r = "ok" => \E t \in tickets : t.id = jira_issue_id[h]
    /\ Issue(h, Call("delete", r, jira_issue_id[h]))
    /\ tickets' = IF r = "ok"
                  THEN {t \in tickets : t.id # jira_issue_id[h]}
                  ELSE tickets
    /\ Finish(h, delete_response(issue_info[h], r, jira_issue_id[h]))
    /\ UNCHANGED <<nextId, issue_info, jira_issue_id, payload, replay>>

(***************************************************************************)
(* Specifications                                                          *)
(***************************************************************************)
Init ==
    /\ tickets = {}
    /\ nextId = 1
    /\ pc = [h \in Handlers |-> "idle"]
    /\ issue_info = [h \in Handlers |-> NoJson]
    /\ jira_issue_id = [h \in Handlers |-> 0]
    /\ payload = [h \in Handlers |-> NoPayload]
    /\ response = [h \in Handlers |-> NoResponse]
    /\ calls = [h \in Handlers |-> <<>>]
    /\ replay = [h \in Handlers |-> FALSE]

Step(h, deliveries) ==
    \/ \E ev \in deliveries : Receive(h, ev)
    \/ \E r \in Results : GetProject(h, r)
    \/ \E r \in Results : Search(h, r)
    \/ \E r \in Results : GetIssueTypes(h, r)
    \/ \E r \in Results, s \in Schemas : GetSchema(h, r, s)
    \/ \E r \in Results : Create(h, r)
    \/ \E r \in Results : Delete(h, r)

\* deliveries are handled by any worker, interleaved at the outbound calls
Next == \E h \in Handlers : Step(h, RaceEvents)

Spec == Init /\ [][Next]_vars

\* deliveries of any shape are handled one at a time: a single worker
NextSeq == Step("h1", Events)

SpecSeq == Init /\ [][NextSeq]_vars

(***************************************************************************)
(* Vocabulary of the properties                                            *)
(***************************************************************************)
Done(h) == pc[h] = "done"

Returned(h) == Done(h) /\ response[h].kind = "returned"

NoAction(h) ==
    /\ Returned(h)
    /\ response[h].status = 200
    /\ response[h].action_performed = "No action"

Issued(h, op) == \E i \in DOMAIN calls[h] : calls[h][i].op = op

\* the lookup of this invocation answered, and found n tickets
LookupFound(h, n) ==
    /\ Len(calls[h]) >= 2
    /\ calls[h][2].op = "search"
    /\ calls[h][2].res = "ok"
    /\ calls[h][2].n = n

TicketsFor(i) == jql_issue_search(tickets, ProjectKey, IdLine(i))

\* a labeled delivery with the sync label for an issue
SyncLabeled(ev) ==
    /\ ev.json
    /\ ev.action = "labeled"
    /\ ev.label = GITHUB_SYNC_LABEL
    /\ ev.issue # Missing

\* the step is taken by worker h
Acts(h) ==
    <<pc[h], issue_info[h], jira_issue_id[h], payload[h], response[h],
      calls[h], replay[h]>>'
        # <<pc[h], issue_info[h], jira_issue_id[h], payload[h], response[h],
             calls[h], replay[h]>>

(***************************************************************************)
(* C1: deliveries handled one at a time, every outbound call succeeding    *)
(* and the issue type of the delivery being one the project offers: a      *)
(* labeled delivery with the sync label for an issue that has no ticket    *)
(* is answered 201 (Created); the same delivery handled again right after  *)
(* it is answered 200 with "No action", and the issue then has exactly     *)
(* one ticket.                                                             *)
(***************************************************************************)
C1_CreateThenNoAction ==
    \A h \in Handlers :
        /\ ( /\ Done(h)
             /\ SyncLabeled(issue_info[h])
             /\ LookupFound(h, 0)
             /\ AllCallsOk(h)
             /\ issue_type_resolves(issue_type_name(issue_info[h].body))
             => /\ Returned(h)
                /\ response[h].status = 201
                /\ response[h].action_performed = "open"
                /\ Cardinality(TicketsFor(issue_info[h].issue)) = 1 )
        /\ ( Done(h) /\ replay[h] /\ AllCallsOk(h)
             => /\ NoAction(h)
                /\ ~Issued(h, "create")
                /\ Cardinality(TicketsFor(issue_info[h].issue)) = 1 )

\* the delivery was replayed after a creation and answered "No action"
C1_Witness ==
    \E h \in Handlers :
        Done(h) /\ replay[h] /\ AllCallsOk(h) /\ NoAction(h)

\* C1 as claimed, for every labeled delivery with the sync label: whatever
\* issue type its body names, the first handling is answered 201
C1_AsClaimed ==
    \A h \in Handlers :
        /\ ( /\ Done(h)
             /\ SyncLabeled(issue_info[h])
             /\ LookupFound(h, 0)
             /\ AllCallsOk(h)
             => /\ Returned(h)
                /\ response[h].status = 201 )
        /\ ( Done(h) /\ replay[h] /\ AllCallsOk(h)
             => /\ NoAction(h)
                /\ Cardinality(TicketsFor(issue_info[h].issue)) = 1 )

(***************************************************************************)
(* C2: in every reachable state, whatever the interleaving of the          *)
(* deliveries, at most one ticket exists per GitHub issue id.              *)
(***************************************************************************)
C2_AtMostOneTicketPerIssue ==
    \A i \in IssueIds : Cardinality(TicketsFor(i)) <= 1

(***************************************************************************)
(* C3: a labeled delivery whose label is not the sync label is answered    *)
(* 200 with "No action" and issues neither a create nor a delete call,     *)
(* whether or not the issue has a ticket.  (Stated for the invocations     *)
(* whose project fetch and lookup succeed.)                                *)
(***************************************************************************)
OtherLabeled(ev) ==
    /\ ev.json
    /\ ev.action = "labeled"
    /\ ev.label \notin {GITHUB_SYNC_LABEL, Missing}
    /\ ev.issue # Missing

\* C3: a labeled delivery with another label deletes nothing, creates
\* nothing, and is answered "No action"
C3_OtherLabelNoAction ==
    \A h \in Handlers :
        OtherLabeled(issue_info[h]) /\ pc[h] # "idle"
        => /\ pc[h] \notin {"create", "delete"}
           /\ ~Issued(h, "create")
           /\ ~Issued(h, "delete")
           /\ ( Done(h) /\ AllCallsOk(h) => NoAction(h) )

(***************************************************************************)
(* C4: a delivery whose action is neither labeled nor deleted is answered  *)
(* 200 with "No action" in the step that receives it, issues no outbound   *)
(* call at all and leaves the tickets of the project as they are.          *)
(***************************************************************************)
NotSyncAction(ev) ==
    /\ ev.json
    /\ ev.action \notin {"labeled", "deleted", Missing}
    /\ ev.issue # Missing

C4_Step ==
    \A h \in Handlers :
        NotSyncAction(issue_info'[h]) /\ pc'[h] # "idle"
        => /\ pc'[h] = "done"
           /\ calls'[h] = <<>>
           /\ NoAction(h)'
           /\ response'[h].github_issue_action = issue_info'[h].action
           /\ ( Acts(h) => tickets' = tickets /\ nextId' = nextId )

\* C4: every step keeps the deliveries that are no sync action answered
\* "No action", without a call, the tickets untouched
C4_NoActionNoCalls == [][C4_Step]_vars

\* an opened delivery was answered "No action" while its issue has a ticket
C4_Witness ==
    \E h \in Handlers :
        /\ Done(h)
        /\ NotSyncAction(issue_info[h])
        /\ NoAction(h)
        /\ calls[h] = <<>>
        /\ TicketsFor(issue_info[h].issue) # {}

(***************************************************************************)
(* C5: when the lookup of a delivery finds more than one ticket, the       *)
(* delivery is answered as a failure and neither proceeds to create a      *)
(* ticket nor to delete one.                                               *)
(***************************************************************************)
Failed(h) == Returned(h) /\ response[h].status \notin {200, 201, 204}

LookupAmbiguous(h) ==
    /\ Len(calls[h]) >= 2
    /\ calls[h][2].op = "search"
    /\ calls[h][2].res = "ok"
    /\ calls[h][2].n > 1

\* C5: a lookup that found several tickets ends the invocation as a failure
C5_AmbiguousLookupFails ==
    \A h \in Handlers :
        LookupAmbiguous(h)
        => /\ pc[h] = "done"
           /\ ~Issued(h, "get_issuetypes")
           /\ ~Issued(h, "create")
           /\ ~Issued(h, "delete")
           /\ Failed(h)

(***************************************************************************)
(* C6: for a deleted delivery (deliveries handled one at a time): when no   *)
(* ticket exists for the issue, which is what its lookup finds, the answer *)
(* is 200 with "No action" and no delete call is issued; when a ticket     *)
(* exists and the delete call succeeds, the call names the ticket id the   *)
(* lookup returned, the answer is 204 and a lookup for the issue then      *)
(* finds nothing.                                                          *)
(***************************************************************************)
DeletedEvent(ev) == ev.json /\ ev.action = "deleted" /\ ev.issue # Missing

DeleteSucceeded(h) ==
    \E i \in DOMAIN calls[h] :
        calls[h][i].op = "delete" /\ calls[h][i].res = "ok"

\* what holds of a delete call that succeeded
C6_Deleted(h) ==
    /\ jira_issue_id[h] # 0
    /\ calls[h][Len(calls[h])] = Call("delete", "ok", jira_issue_id[h])
    /\ \A t \in tickets : t.id # jira_issue_id[h]
    /\ Returned(h)
    /\ response[h].status = 204
    /\ response[h].action_performed = "delete"
    /\ response[h].id = jira_issue_id[h]
    /\ github_issue_exists(tickets, ProjectKey, issue_info[h].issue) = 0
    /\ TicketsFor(issue_info[h].issue) = {}

\* C6: the outcome of a deleted delivery, without and with a ticket
C6_DeleteOutcome ==
    \A h \in Handlers :
        Done(h) /\ DeletedEvent(issue_info[h])
        => /\ ( LookupFound(h, 0)
                => NoAction(h) /\ ~Issued(h, "delete") )
           /\ ( DeleteSucceeded(h) => C6_Deleted(h) )

\* a deleted delivery found one ticket and deleted it
C6_Witness ==
    \E h \in Handlers :
        /\ Done(h)
        /\ DeletedEvent(issue_info[h])
        /\ LookupFound(h, 1)
        /\ DeleteSucceeded(h)
        /\ response[h].status = 204

(***************************************************************************)
(* C7: an unlabeled delivery naming the sync label, for an issue that has  *)
(* a ticket, leaves that ticket in the project: it is answered 200 with    *)
(* "No action", without any outbound call.                                 *)
(***************************************************************************)
UnlabeledSync(ev) ==
    /\ ev.json
    /\ ev.action = "unlabeled"
    /\ ev.label = GITHUB_SYNC_LABEL
    /\ ev.issue # Missing

\* worker h receives a delivery in this step
Receives(h) == Acts(h) /\ pc[h] \in {"idle", "done"}

C7_Step ==
    \A h \in Handlers :
        /\ Receives(h)
        /\ UnlabeledSync(issue_info'[h])
        /\ TicketsFor(issue_info'[h].issue) # {}
        => /\ NoAction(h)'
           /\ calls'[h] = <<>>
           /\ tickets' = tickets
           /\ jql_issue_search(tickets', ProjectKey,
                               IdLine(issue_info'[h].issue))
                = TicketsFor(issue_info'[h].issue)

\* C7: receiving an unlabeled delivery with the sync label never removes
\* the ticket of its issue
C7_UnlabeledKeepsTicket == [][C7_Step]_vars

\* the sync label was removed from an issue whose ticket is still there
C7_Witness ==
    \E h \in Handlers :
        /\ Done(h)
        /\ UnlabeledSync(issue_info[h])
        /\ NoAction(h)
        /\ TicketsFor(issue_info[h].issue) # {}

\* C7 as claimed: handling the unlabeled delivery deletes the ticket
C7_AsClaimed_Step ==
    \A h \in Handlers :
        /\ Receives(h)
        /\ UnlabeledSync(issue_info'[h])
        /\ TicketsFor(issue_info'[h].issue) # {}
        => jql_issue_search(tickets', ProjectKey,
                            IdLine(issue_info'[h].issue)) = {}

\* C7 as claimed: receiving an unlabeled delivery with the sync label
\* removes the ticket of its issue
C7_AsClaimed == [][C7_AsClaimed_Step]_vars

(***************************************************************************)
(* C8: whatever the delivery (malformed payloads included) and whatever    *)
(* the outbound calls return, the handling ends by returning a body and a  *)
(* status: never by an exception, never by leaving the process.            *)
(***************************************************************************)
\* C8: an invocation that has ended has returned a response
C8_AlwaysReturns ==
    \A h \in Handlers : Done(h) => response[h].kind = "returned"

(***************************************************************************)
(* C9: a labeled delivery without a label field is answered 200 with       *)
(* "No action", and neither a create nor a delete call is issued.          *)
(* (Stated for the invocations whose outbound calls all succeed.)          *)
(***************************************************************************)
LabeledNoLabel(ev) ==
    /\ ev.json
    /\ ev.action = "labeled"
    /\ ev.label = Missing
    /\ ev.issue # Missing

\* C9: a labeled delivery without label is answered "No action"
C9_MissingLabelNoAction ==
    \A h \in Handlers :
        LabeledNoLabel(issue_info[h]) /\ pc[h] # "idle"
        => /\ ~Issued(h, "create")
           /\ ~Issued(h, "delete")
           /\ ( Done(h) /\ AllCallsOk(h) => NoAction(h) )

(***************************************************************************)
(* C10: when an outbound call of an invocation fails (a status that is no  *)
(* success, or a body that cannot be read), the invocation issues no       *)
(* further call and is answered with the status of the failed call.        *)
(***************************************************************************)
\* C10: a failed call is the last call, and its status is the answer
C10_FailurePropagates ==
    \A h \in Handlers :
        \A i \in DOMAIN calls[h] :
            calls[h][i].res # "ok"
            => /\ i = Len(calls[h])
               /\ Returned(h)
               /\ response[h].status = FailStatus(calls[h][i].res)

(***************************************************************************)
(* C11: a payload that lacks an expected field (no JSON at all, no action, *)
(* no issue or issue id), whatever its action, is answered 200 with a      *)
(* generic error body, and no outbound call is issued for it.              *)
(***************************************************************************)
MalformedPayload(ev) ==
    \/ ~ev.json
    \/ ev.action = Missing
    \/ ev.issue = Missing

\* C11: a malformed payload is answered 200 with an error, without a call
C11_MalformedAnswered ==
    \A h \in Handlers :
        MalformedPayload(issue_info[h]) /\ pc[h] # "idle"
        => /\ calls[h] = <<>>
           /\ ( Done(h)
                => /\ Returned(h)
                   /\ response[h].status = 200
                   /\ response[h].error # "" )

(***************************************************************************)
(* C12: a labeled delivery with the sync label whose lookup reported no    *)
(* ticket and whose create call succeeded is answered 201; the body holds  *)
(* the id and the key of the created ticket, action_performed "open", and  *)
(* the issue id and the action of the delivery.                            *)
(***************************************************************************)
CreateSucceeded(h) ==
    \E i \in DOMAIN calls[h] :
        calls[h][i].op = "create" /\ calls[h][i].res = "ok"

\* the id the tracker gave to the ticket this invocation created
CreatedId(h) == calls[h][Len(calls[h])].n

\* C12: the answer to a creation that succeeded
C12_CreatedResponse ==
    \A h \in Handlers :
        /\ SyncLabeled(issue_info[h])
        /\ jira_issue_id[h] = 0
        /\ CreateSucceeded(h)
        => /\ Returned(h)
           /\ calls[h][Len(calls[h])].op = "create"
           /\ response[h].status = 201
           /\ response[h].action_performed = "open"
           /\ CreatedId(h) # 0
           /\ response[h].id = CreatedId(h)
           /\ response[h].key = CreatedId(h)
           /\ response[h].github_issue_id = issue_info[h].issue
           /\ response[h].github_issue_action = issue_info[h].action
           /\ response[h].github_issue_action = "labeled"
           /\ \E t \in tickets :
                 /\ t.id = response[h].id
                 /\ t.description[1] = IdLine(issue_info[h].issue)

\* a ticket was created for a delivery whose body names an issue type
C12_Witness ==
    \E h \in Handlers :
        /\ Done(h)
        /\ SyncLabeled(issue_info[h])
        /\ CreateSucceeded(h)
        /\ response[h].status = 201
        /\ issue_info[h].body.present

(***************************************************************************)
(* C13: whenever no action is performed (an issue opened without the sync  *)
(* label, a labeled delivery with the sync label replayed for an issue     *)
(* that has a ticket), the answer has status 200 and the text of its body  *)
(* contains the string "No action performed.".                             *)
(***************************************************************************)
\* the words of phrase stand, in this order and side by side, in words
Infix(phrase, words) ==
    \E k \in 0 .. (Len(words) - Len(phrase)) :
        \A i \in 1 .. Len(phrase) : words[k + i] = phrase[i]

\* a phrase free of quotes, colons and commas can only stand inside one key
\* or one string value of the body
TextContains(text, phrase) ==
    \E j \in DOMAIN text : Infix(phrase, text[j])

NoActionPerformed == <<"No", "action", "performed.">>

\* C13: an answer reporting no action is a 200 whose text holds
\* "No action performed."
C13_NoActionText ==
    \A h \in Handlers :
        Returned(h) /\ response[h].action_performed = "No action"
        => /\ response[h].status = 200
           /\ TextContains(response_text(response[h]), NoActionPerformed)

(***************************************************************************)
(* C14: round trip between create and lookup.  Once a ticket has been      *)
(* created for a delivery about issue X, the lookup for X in the project   *)
(* returns the id of that ticket, provided no other ticket of the project  *)
(* is a ticket for X.                                                      *)
(***************************************************************************)
\* the tickets for issue i other than the ticket with this id
OtherTicketsFor(i, id) == {t \in TicketsFor(i) : t.id # id}

\* C14: the ticket an invocation created is the one the lookup returns
C14_CreateLookupRoundTrip ==
    \A h \in Handlers :
        /\ Done(h)
        /\ CreateSucceeded(h)
        /\ \E t \in tickets : t.id = CreatedId(h)
        /\ OtherTicketsFor(issue_info[h].issue, CreatedId(h)) = {}
        => /\ CreatedId(h) # 0
           /\ github_issue_exists(tickets, ProjectKey, issue_info[h].issue)
                = CreatedId(h)

\* a second ticket was created, for another issue, and is found by its id
C14_Witness ==
    \E h \in Handlers :
        /\ Done(h)
        /\ CreateSucceeded(h)
        /\ Cardinality(tickets) = 2
        /\ OtherTicketsFor(issue_info[h].issue, CreatedId(h)) = {}
        /\ github_issue_exists(tickets, ProjectKey, issue_info[h].issue)
             = CreatedId(h)

(***************************************************************************)
(* C15: deliveries handled at the same time are not serialised.  Two       *)
(* labeled deliveries with the sync label for one issue can both look up   *)
(* "no ticket" and both create: whenever two workers have done so and      *)
(* both tickets are in the project, the project holds two tickets for      *)
(* that one issue; and such a state is reached.                            *)
(***************************************************************************)
\* worker h looked up no ticket for issue i and then created one
CreatedAfterEmptyLookup(h, i) ==
    /\ Done(h)
    /\ SyncLabeled(issue_info[h])
    /\ issue_info[h].issue = i
    /\ LookupFound(h, 0)
    /\ CreateSucceeded(h)
    /\ \E t \in tickets : t.id = CreatedId(h)

\* C15: two creations for one issue after two empty lookups leave two
\* tickets for that issue
C15_BothCreate ==
    \A i \in IssueIds :
        CreatedAfterEmptyLookup("h1", i) /\ CreatedAfterEmptyLookup("h2", i)
        => /\ CreatedId("h1") # CreatedId("h2")
           /\ Cardinality(TicketsFor(i)) = 2
           /\ response["h1"].status = 201
           /\ response["h2"].status = 201

\* both workers saw no ticket for the issue, both created one
C15_Witness ==
    \E i \in IssueIds :
        /\ CreatedAfterEmptyLookup("h1", i)
        /\ CreatedAfterEmptyLookup("h2", i)
        /\ Cardinality(TicketsFor(i)) = 2

(***************************************************************************)
(* C16: deliveries handled strictly one at a time, from a project with at  *)
(* most one ticket per GitHub issue id (here: the empty project): after    *)
(* any sequence of deliveries the project holds at most one ticket per     *)
(* GitHub issue id.  A ticket is a ticket for issue i when its description *)
(* holds the line "githubIssueId: i", which is all the lookup goes by.     *)
(* (A call that fails leaves the project as it is, so every project that   *)
(* is reached is also reached by a run whose calls all succeed.)           *)
(***************************************************************************)
HoldsIdLine(t, i) ==
    \E k \in DOMAIN t.description : t.description[k] = IdLine(i)

\* C16: one delivery at a time never leaves two tickets for one issue
C16_SequentialAtMostOne ==
    pc["h2"] = "idle"
    => \A i \in IssueIds :
           \A t1, t2 \in tickets :
               HoldsIdLine(t1, i) /\ HoldsIdLine(t2, i) => t1 = t2

(***************************************************************************)
(* C17: ordering of lookup and create.  Every create call comes, in its    *)
(* invocation, after a lookup that answered and reported no ticket; every  *)
(* invocation for a labeled or deleted delivery makes a lookup of its own, *)
(* and what it decides on is what the project holds at that time, not      *)
(* what an earlier invocation found.  (Deliveries handled one at a time,   *)
(* so that the project does not change under the invocation.)              *)
(***************************************************************************)
\* the lookup has answered and the create or delete call is still to come
Decided(h) == pc[h] \in {"get_issuetypes", "get_schema", "create", "delete"}

\* what a lookup for issue i reports of the project as it is now
Reported(i) ==
    IF Cardinality(TicketsFor(i)) = 1
    THEN (CHOOSE t \in TicketsFor(i) : TRUE).id
    ELSE 0

\* C17: a create call follows a lookup of the same invocation that reported
\* no ticket, and the lookup reflects the project at the time
C17_LookupBeforeCreate ==
    \A h \in Handlers :
        /\ \A k \in DOMAIN calls[h] :
              calls[h][k].op \in {"create", "delete"}
              => /\ k > 2
                 /\ calls[h][2].op = "search"
                 /\ calls[h][2].res = "ok"
                 /\ \A j \in 1 .. (k - 1) :
                       calls[h][j].op \notin {"create", "delete"}
                 /\ ( calls[h][k].op = "create" => jira_issue_id[h] = 0 )
                 /\ ( calls[h][k].op = "delete" => jira_issue_id[h] # 0 )
        /\ ( Decided(h)
             => /\ calls[h][2].op = "search"
                /\ calls[h][2].res = "ok"
                /\ jira_issue_id[h] = Reported(issue_info[h].issue)
                /\ calls[h][2].n = Cardinality(TicketsFor(issue_info[h].issue))
                /\ ( pc[h] # "delete" => jira_issue_id[h] = 0 ) )
        /\ ( /\ Done(h)
             /\ issue_info[h].action \in {"labeled", "deleted"}
             /\ issue_info[h].issue # Missing
             /\ AllCallsOk(h)
             => Issued(h, "search") )

\* a second ticket is about to be created for an issue whose first ticket
\* was deleted in between: the lookup reported no ticket again
C17_Witness ==
    \E h \in Handlers :
        /\ pc[h] = "create"
        /\ nextId = 2
        /\ tickets = {}
        /\ LookupFound(h, 0)

(***************************************************************************)
(* C18: an invocation issues at most one call that changes the project:    *)
(* one create or one delete, never both, and never the same call again     *)
(* after it failed.                                                        *)
(***************************************************************************)
\* the places of the create and delete calls in the calls of worker h
Mutating(h) ==
    {k \in DOMAIN calls[h] : calls[h][k].op \in {"create", "delete"}}

\* C18: at most one create or delete call per invocation, and it is the
\* last call of the invocation
C18_OneMutatingCall ==
    \A h \in Handlers :
        /\ Cardinality(Mutating(h)) <= 1
        /\ ~(Issued(h, "create") /\ Issued(h, "delete"))
        /\ \A k \in Mutating(h) : k = Len(calls[h]) /\ Done(h)

\* a create call was refused and the invocation ended with its status
C18_Witness ==
    \E h \in Handlers :
        /\ Done(h)
        /\ Mutating(h) # {}
        /\ calls[h][Len(calls[h])] = Call("create", "http_error", 0)
        /\ response[h].status = 400

(***************************************************************************)
(* C19: when the issue type chosen for the ticket (the value of the        *)
(* githubIssueType line of the body, else "Bug") is the name of no issue   *)
(* type of the project, the invocation ends as a failure that is answered  *)
(* to the caller; no create call is issued and no other issue type is      *)
(* put in its place.                                                       *)
(***************************************************************************)
\* the issue types of the project were fetched and the chosen one is not
\* among them
UnresolvedIssueType(h) ==
    /\ SyncLabeled(issue_info[h])
    /\ \E k \in DOMAIN calls[h] :
          calls[h][k].op = "get_issuetypes" /\ calls[h][k].res = "ok"
    /\ ~issue_type_resolves(issue_type_name(issue_info[h].body))

\* C19: an issue type the project does not offer ends the invocation as a
\* failure, without a create call
C19_UnresolvedTypeFails ==
    \A h \in Handlers :
        UnresolvedIssueType(h)
        => /\ Done(h)
           /\ ~Issued(h, "get_schema")
           /\ ~Issued(h, "create")
           /\ payload[h] = NoPayload
           /\ Failed(h)

(***************************************************************************)
(* C20: handling keeps nothing from one request to the next.  The two      *)
(* workers have handled different deliveries before; whenever both have    *)
(* handled the same delivery and their outbound calls came back with the   *)
(* same results (the count and the ticket id the lookup gave, the ids the  *)
(* calls name: what the project showed them), their answers are the same   *)
(* in every field.  What an invocation leaves in the project is given by   *)
(* the delivery and the result of its call alone: the ticket it created    *)
(* holds the description of this delivery, the ticket it deleted is the    *)
(* one its lookup found.                                                   *)
(***************************************************************************)
\* both workers handled the same delivery with the same call results
SameRequest(h1, h2) ==
    /\ Done(h1)
    /\ Done(h2)
    /\ issue_info[h1] = issue_info[h2]
    /\ calls[h1] = calls[h2]
    /\ jira_issue_id[h1] = jira_issue_id[h2]

\* C20: same delivery and same call results give the same answer,
\* whatever was handled before
C20_Stateless ==
    /\ \A h1, h2 \in Handlers :
          SameRequest(h1, h2)
          => /\ response[h1] = response[h2]
             /\ payload[h1] = payload[h2]
    /\ \A h \in Handlers :
          Done(h) /\ CreateSucceeded(h)
          => \A t \in tickets :
                t.id = CreatedId(h)
                => t.description = description(issue_info[h])
    /\ \A h \in Handlers :
          Done(h) /\ DeleteSucceeded(h)
          => /\ calls[h][Len(calls[h])].n = jira_issue_id[h]
             /\ \A t \in tickets : t.id # jira_issue_id[h]

\* after one worker created the ticket of an issue, both workers were given
\* the labeled delivery for it again and found the ticket
C20_Witness ==
    /\ SameRequest("h1", "h2")
    /\ SyncLabeled(issue_info["h1"])
    /\ LookupFound("h1", 1)
    /\ replay["h1"]
    /\ ~replay["h2"]
    /\ response["h1"] = response["h2"]

(***************************************************************************)
(* C21: the answer tells what the invocation did.  Status 201 is only the  *)
(* answer to a create call of this invocation that succeeded, status 204   *)
(* only the answer to its delete call that succeeded; action_performed     *)
(* names the call the invocation issued ("open" for the create call,       *)
(* "delete" for the delete call), and when that call was refused the       *)
(* answer carries the status of the refusal, which response_handler        *)
(* reports as a failure.                                                   *)
(***************************************************************************)
\* the last call of the invocation of worker h is the call op
LastCall(h, op) ==
    /\ calls[h] # <<>>
    /\ calls[h][Len(calls[h])].op = op

\* the create or delete call of the invocation was refused
MutationRefused(h) ==
    \E k \in Mutating(h) : calls[h][k].res # "ok"

\* C21: 201 and 204 answer a change that was made; action_performed names
\* the call that was issued; a refused call is reported as failed
C21_ResponseReflectsCall ==
    \A h \in Handlers :
        Returned(h)
        => /\ ( response[h].status = 201
                => CreateSucceeded(h) /\ response[h].action_performed = "open" )
           /\ ( response[h].status = 204
                => /\ DeleteSucceeded(h)
                   /\ response[h].action_performed = "delete" )
           /\ ( response[h].action_performed = "open" => LastCall(h, "create") )
           /\ ( response[h].action_performed = "delete"
                => LastCall(h, "delete") )
           /\ ( response_handler(response[h]) = "open" => CreateSucceeded(h) )
           /\ ( response_handler(response[h]) = "delete"
                => DeleteSucceeded(h) )
           /\ ( MutationRefused(h)
                => /\ response[h].status \notin {200, 201, 204}
                   /\ response_handler(response[h]) = "failed" )

\* a delete call was refused: the answer names "delete" with the status of
\* the refusal
C21_Witness ==
    \E h \in Handlers :
        /\ Returned(h)
        /\ LastCall(h, "delete")
        /\ MutationRefused(h)
        /\ response[h].action_performed = "delete"
        /\ response[h].status = 400
        /\ response_handler(response[h]) = "failed"

\* C21 as claimed: action_performed "open" or "delete" appears only when a
\* ticket was created or deleted by the invocation
C21_AsClaimed ==
    \A h \in Handlers :
        Returned(h)
        => /\ ( response[h].status = 201 \/ response[h].action_performed = "open"
                => CreateSucceeded(h) )
           /\ ( \/ response[h].status = 204
                \/ response[h].action_performed = "delete"
                => DeleteSucceeded(h) )

(***************************************************************************)
(* C22: isolation between issues.  Handling a delivery for issue X only    *)
(* creates a ticket whose description holds the id line of X, only deletes *)
(* the ticket whose id the lookup of this invocation returned for X, and   *)
(* leaves every ticket that belongs to another issue as it is.  A ticket   *)
(* belongs to the issue it was created for: the one its first line names.  *)
(* (Stated for the deleted deliveries and the labeled deliveries with the  *)
(* sync label; what a labeled delivery with another label does is C3.)     *)
(***************************************************************************)
BelongsTo(t) == t.description[1].v

C22_Step ==
    \A h \in Handlers :
        /\ pc[h] \in {"create", "delete"}
        /\ Acts(h)
        /\ DeletedEvent(issue_info[h]) \/ SyncLabeled(issue_info[h])
        => /\ \A t \in tickets' \ tickets :
                 HoldsIdLine(t, issue_info[h].issue)
           /\ \A t \in tickets \ tickets' : t.id = jira_issue_id[h]
           /\ \A t \in tickets :
                 BelongsTo(t) # issue_info[h].issue => t \in tickets'

\* C22: no step of an invocation for issue X touches a ticket of another
\* issue
C22_IssuesIsolated == [][C22_Step]_vars

(***************************************************************************)
(* C23: issue type selection.  When the body of the issue is absent or     *)
(* holds no githubIssueType line, the ticket is created with issue type    *)
(* "Bug"; when the body holds such a line, with the type that line names.  *)
(* The type of the ticket is the one the create call is about to name:     *)
(* it is among the issue types of the project, and its id is the value of  *)
(* the issuetype field of the payload.                                     *)
(***************************************************************************)
\* the githubIssueType lines of a body, in their order
TypeLines(body) ==
    SelectSeq(body.lines, LAMBDA l : l.k = "githubIssueType")

\* the issue type the ticket of this delivery is to have
ExpectedIssueType(ev) ==
    IF ~ev.body.present \/ TypeLines(ev.body) = <<>>
    THEN "Bug"
    ELSE Head(TypeLines(ev.body)).v

\* C23: the create call names "Bug" without a type line, else the type of
\* the line
C23_IssueTypeSelected ==
    \A h \in Handlers :
        pc[h] = "create"
        => /\ ExpectedIssueType(issue_info[h]) \in ProjectIssueTypes
           /\ ( "issuetype" \in DOMAIN payload[h]
                => payload[h]["issuetype"]
                     = [id |-> issue_type_id(ExpectedIssueType(issue_info[h]))] )

\* a ticket of type Task is about to be created for a body naming Task
C23_Witness ==
    \E h \in Handlers :
        /\ pc[h] = "create"
        /\ issue_info[h].body = Body(<<TypeLine("Task")>>)
        /\ "issuetype" \in DOMAIN payload[h]
        /\ payload[h]["issuetype"] = [id |-> "Task"]

(***************************************************************************)
(* C24: the payload of the create call holds a value for every field the   *)
(* schema of the issue type marks as required: project is the project      *)
(* key, issuetype the id of the resolved type, summary the title of the    *)
(* issue, reporter the account id of the project lead, any other required  *)
(* field the placeholder; and its description always starts with the       *)
(* githubIssueId line of the delivery, also when the schema requires the   *)
(* description.                                                            *)
(***************************************************************************)
KnownFields == {"project", "issuetype", "summary", "reporter", "description"}

\* C24: every required field has its value, the description names the issue
C24_PayloadComplete ==
    \A h \in Handlers :
        pc[h] = "create"
        => LET p == payload[h]
               ev == issue_info[h]
           IN  /\ \E s \in Schemas : DOMAIN p = s \cup {"description"}
               /\ ( "project" \in DOMAIN p
                    => p["project"] = [key |-> ProjectKey] )
               /\ ( "issuetype" \in DOMAIN p
                    => p["issuetype"]
                         = [id |-> issue_type_id(issue_type_name(ev.body))] )
               /\ ( "summary" \in DOMAIN p
                    => p["summary"] = [text |-> ev.title] )
               /\ ( "reporter" \in DOMAIN p
                    => p["reporter"] = [id |-> LeadAccountId] )
               /\ \A f \in DOMAIN p \ KnownFields :
                     p[f] = [text |-> PlaceHolder]
               /\ "description" \in DOMAIN p
               /\ Len(p["description"].text) >= 4
               /\ p["description"].text[1] = IdLine(ev.issue)

\* the schema requires the description and a field the code does not know
C24_Witness ==
    \E h \in Handlers :
        /\ pc[h] = "create"
        /\ DOMAIN payload[h] = {"summary", "description", "customfield_10020"}
        /\ payload[h]["customfield_10020"] = [text |-> PlaceHolder]
        /\ payload[h]["description"].text[1] = IdLine(issue_info[h].issue)

====
